---------------------------- MODULE Spec2Model ----------------------------
(***************************************************************************)
(* A model of Tag_Result_Merger (src/src/merge_tagged_results.py): the     *)
(* constructor, discover_merge_files, merge_files with its joblib workers  *)
(* running process_group, _merge_single_group, _add_record_data and the    *)
(* tenacity-retried _load_json_file.                                       *)
(*                                                                         *)
(* Encodings.  A Python str is the sequence of its characters.  A JSON     *)
(* value is a tagged tuple (JStr, JNum, JBool) or None, which is also JSON *)
(* null.  A dict is the sequence of its <<key, value>> items in insertion  *)
(* order, keys unique.  A path is <<"Path", directory, file name>>.        *)
(***************************************************************************)
EXTENDS Integers, Sequences, FiniteSets, TLC

-----------------------------------------------------------------------------
(* Python values *)

JStr(s) == <<"str", s>>
JNum(n) == <<"num", n>>
JBool(b) == <<"bool", b>>
\* None; json.load maps JSON null to it
None == <<"None">>

\* Python truth value of a JSON value, as `not record_id` tests it.
Truthy(v) ==
    CASE v[1] = "str" -> v[2] # <<>>
      [] v[1] = "num" -> v[2] # 0
      [] v[1] = "bool" -> v[2]
      [] OTHER -> FALSE

\* f"{value}" of a str value.
Format(v) == v[2]

-----------------------------------------------------------------------------
(* Python dicts, insertion ordered *)

DictKeys(d) == {d[i][1] : i \in 1..Len(d)}

DictHas(d, k) == k \in DictKeys(d)

DictIndex(d, k) == CHOOSE i \in 1..Len(d) : d[i][1] = k

\* d.get(k): the value, or None
DictGet(d, k) == IF DictHas(d, k) THEN d[DictIndex(d, k)][2] ELSE None

\* DictSet that takes an item it overwrites to the end of the dict.
DictSetMoveToEnd(d, k, v) ==
    Append(SelectSeq(d, LAMBDA item : item[1] # k), <<k, v>>)

\* d[k] = v: overwrite in place, or append a new item
DictSet(d, k, v) ==
    IF DictHas(d, k)
    THEN [d EXCEPT ![DictIndex(d, k)] = <<k, v>>]
    ELSE Append(d, <<k, v>>)

\* list(d.values())
DictValues(d) == [i \in 1..Len(d) |-> d[i][2]]

-----------------------------------------------------------------------------
(* Python strings *)

Digits == {"0", "1", "2", "3", "4", "5", "6", "7", "8", "9"}

\* str.isdigit()
IsDigit(s) == Len(s) > 0 /\ \A i \in 1..Len(s) : s[i] \in Digits

\* str.endswith(suffix)
EndsWith(s, suffix) ==
    /\ Len(s) >= Len(suffix)
    /\ SubSeq(s, Len(s) - Len(suffix) + 1, Len(s)) = suffix

\* s.split('_')
RECURSIVE SplitFrom(_, _, _)
SplitFrom(s, i, cur) ==
    IF i > Len(s) THEN <<cur>>
    ELSE IF s[i] = "_" THEN <<cur>> \o SplitFrom(s, i + 1, <<>>)
    ELSE SplitFrom(s, i + 1, Append(cur, s[i]))

Split(s) == SplitFrom(s, 1, <<>>)

\* Path(name).stem: the name without its last suffix; a name whose only dot
\* leads it, or that ends with a dot, has no suffix.
LastDot(s) ==
    IF \E i \in 1..Len(s) : s[i] = "."
    THEN CHOOSE i \in 1..Len(s) : s[i] = "." /\ \A j \in (i+1)..Len(s) : s[j] # "."
    ELSE 0

Stem(s) ==
    IF LastDot(s) > 1 /\ LastDot(s) < Len(s)
    THEN SubSeq(s, 1, LastDot(s) - 1)
    ELSE s

-----------------------------------------------------------------------------
(* The environment: directories, file names, record files *)

Str_2020 == <<"2", "0", "2", "0">>
Str_articles == <<"a", "r", "t", "i", "c", "l", "e", "s">>
Str_json == <<".", "j", "s", "o", "n">>
Str_a1 == <<"a", "1">>
Str_a2 == <<"a", "2">>

\* "2020_articles_<n>_<tag>.json"
BatchFile(n, tag) ==
    Str_2020 \o <<"_">> \o Str_articles \o <<"_">> \o n \o <<"_">> \o tag \o Str_json

File_1_r == BatchFile(<<"1">>, <<"r">>)
File_1_t == BatchFile(<<"1">>, <<"t">>)
File_2_r == BatchFile(<<"2">>, <<"r">>)
File_2_t == BatchFile(<<"2">>, <<"t">>)
File_notes == <<"n", "o", "t", "e", "s">> \o Str_json

\* Names of other shapes: the batch number right before the extension, a
\* second part that is not 'articles', a first part that is not a number,
\* and two parts only.
File_1 == Str_2020 \o <<"_">> \o Str_articles \o <<"_", "1">> \o Str_json
File_2 == Str_2020 \o <<"_">> \o Str_articles \o <<"_", "2">> \o Str_json
File_article_1 == Str_2020 \o <<"_", "a", "r", "t", "i", "c", "l", "e", "_", "1", "_", "r">> \o Str_json
File_y_1 == <<"y", "_">> \o Str_articles \o <<"_", "1", "_", "r">> \o Str_json
File_articles == Str_2020 \o <<"_">> \o Str_articles \o Str_json

DirRule == "rulebased_tagging"
DirTpu == "tpu_tagging"
DirLlm == "hypothetical_llm_tagging"

\* The directories that exist; DirLlm is the one that does not.
ExistingDirs == {DirRule, DirTpu}

Path(dir, name) == <<"Path", dir, name>>
PathDir(p) == p[2]
PathName(p) == p[3]

\* What a file holds: a JSON list of records, a JSON value that is no list,
\* text json.load rejects, or nothing because the file is not there.
ListFile(recs) == <<"list", recs>>
ObjectFile == <<"object">>
CorruptFile == <<"corrupt">>
Absent == <<"absent">>

\* The records the files are made of.
Rec_a1_x1 == << <<"id", JStr(Str_a1)>>, <<"x", JNum(1)>> >>
Rec_a1_x2 == << <<"id", JStr(Str_a1)>>, <<"x", JNum(2)>> >>
Rec_a2_x1 == << <<"id", JStr(Str_a2)>>, <<"x", JNum(1)>> >>
Rec_an1_y2 == << <<"an", JStr(Str_a1)>>, <<"y", JNum(2)>> >>
Rec_id0_an2 == << <<"id", JNum(0)>>, <<"an", JStr(Str_a2)>> >>
Rec_id0_x1 == << <<"id", JNum(0)>>, <<"x", JNum(1)>> >>
Rec_x1 == << <<"x", JNum(1)>> >>

\* Records that name the file they were taken from, both the same one.
Str_orig == <<"o", "r", "i", "g">>
Rec_a1_orig == << <<"id", JStr(Str_a1)>>, <<"ILA_original_filename", JStr(Str_orig)>> >>
Rec_a2_orig == << <<"id", JStr(Str_a2)>>, <<"ILA_original_filename", JStr(Str_orig)>> >>

\* The records of the files of DirRule, and those of the files of DirTpu.
RulePool ==
    {Rec_a1_x1, Rec_a1_x2, Rec_a2_x1, Rec_an1_y2, Rec_id0_an2, Rec_id0_x1, Rec_x1}

TpuPool == {Rec_a1_x2, Rec_a2_x1, Rec_an1_y2, Rec_x1}

\* Records per file in the single-group file systems.
MaxRecs == 2

SeqsUpTo(S, n) == UNION {[1..k -> S] : k \in 0..n}

-----------------------------------------------------------------------------
(* discover_merge_files: patterns, slots, groups *)

\* BasePattern without the test of the second part for 'articles'.
BasePatternAnyWord(filename) ==
    LET parts == Split(filename) IN
    IF Len(parts) >= 2 /\ IsDigit(parts[1])
    THEN IF Len(parts) >= 3 /\ IsDigit(parts[3])
         THEN parts[1] \o <<"_">> \o Str_articles \o <<"_">> \o parts[3] \o <<"_">>
         ELSE IF Len(parts) >= 3 /\ ~IsDigit(parts[3])
         THEN parts[1] \o <<"_">> \o Str_articles \o <<"_">>
         ELSE None
    ELSE None

\* The base pattern extracted from a file name, or None.
BasePattern(filename) ==
    LET parts == Split(filename) IN
    IF Len(parts) >= 2 /\ IsDigit(parts[1]) /\ parts[2] = Str_articles
    THEN IF Len(parts) >= 3 /\ IsDigit(parts[3])
         THEN parts[1] \o <<"_">> \o Str_articles \o <<"_">> \o parts[3] \o <<"_">>
         ELSE IF Len(parts) >= 3 /\ ~IsDigit(parts[3])
         THEN parts[1] \o <<"_">> \o Str_articles \o <<"_">>
         ELSE None
    ELSE None

\* HasPattern without the test: every file is taken to have a pattern.
HasPatternAlways(filename) == TRUE

\* `if base_pattern:` a pattern that is neither None nor the empty string
HasPattern(filename) == BasePattern(filename) \notin {None, <<>>}

\* tag_dir.glob("*.json") over the files of file system f, as a set: the
\* order of enumeration is the operating system's.
Glob(f, dir) ==
    {p \in DOMAIN f : f[p] # Absent /\ PathDir(p) = dir /\ EndsWith(PathName(p), Str_json)}

\* The orders in which a set can be enumerated.
Orders(S) ==
    {s \in [1..Cardinality(S) -> S] : \A i, j \in 1..Cardinality(S) : s[i] = s[j] => i = j}

\* ScanFile leaving a slot that is filled as it is.
ScanFileKeepFirst(all_files_by_pattern, num_dirs, dir_idx, file_path) ==
    LET base_pattern == BasePattern(PathName(file_path))
        slots == IF DictHas(all_files_by_pattern, base_pattern)
                 THEN DictGet(all_files_by_pattern, base_pattern)
                 ELSE [i \in 1..num_dirs |-> None]
    IN  IF HasPattern(PathName(file_path))
        THEN DictSet(all_files_by_pattern, base_pattern,
                     IF slots[dir_idx] = None
                     THEN [slots EXCEPT ![dir_idx] = file_path]
                     ELSE slots)
        ELSE all_files_by_pattern

\* ScanFile counting the slots from the end of the list.
ScanFileReversed(all_files_by_pattern, num_dirs, dir_idx, file_path) ==
    LET base_pattern == BasePattern(PathName(file_path))
        slots == IF DictHas(all_files_by_pattern, base_pattern)
                 THEN DictGet(all_files_by_pattern, base_pattern)
                 ELSE [i \in 1..num_dirs |-> None]
    IN  IF HasPattern(PathName(file_path))
        THEN DictSet(all_files_by_pattern, base_pattern,
                     [slots EXCEPT ![num_dirs + 1 - dir_idx] = file_path])
        ELSE all_files_by_pattern

\* One step of the scan loop: file_path, found in directory number dir_idx,
\* is recorded at its slot of all_files_by_pattern.
ScanFile(all_files_by_pattern, num_dirs, dir_idx, file_path) ==
    LET base_pattern == BasePattern(PathName(file_path))
        slots == IF DictHas(all_files_by_pattern, base_pattern)
                 THEN DictGet(all_files_by_pattern, base_pattern)
                 ELSE [i \in 1..num_dirs |-> None]
    IN  IF HasPattern(PathName(file_path))
        THEN DictSet(all_files_by_pattern, base_pattern,
                     [slots EXCEPT ![dir_idx] = file_path])
        ELSE all_files_by_pattern

\* The scan of one directory, its files taken in the order `files`.
RECURSIVE ScanDir(_, _, _, _)
ScanDir(all_files_by_pattern, num_dirs, dir_idx, files) ==
    IF files = <<>> THEN all_files_by_pattern
    ELSE ScanDir(ScanFile(all_files_by_pattern, num_dirs, dir_idx, Head(files)),
                 num_dirs, dir_idx, Tail(files))

\* The scan of all directories in order; listing[d] is the enumeration of
\* directory number d.
RECURSIVE ScanDirs(_, _, _, _)
ScanDirs(all_files_by_pattern, num_dirs, dir_idx, listing) ==
    IF dir_idx > num_dirs THEN all_files_by_pattern
    ELSE ScanDirs(ScanDir(all_files_by_pattern, num_dirs, dir_idx, listing[dir_idx]),
                  num_dirs, dir_idx + 1, listing)

\* IsComplete with any() for all(): a list with one file passes.
IsCompleteAny(file_list) == \E i \in 1..Len(file_list) : file_list[i] # None

\* all(f is not None for f in file_list)
IsComplete(file_list) == \A i \in 1..Len(file_list) : file_list[i] # None

\* complete_groups and incomplete_groups after the loop over the patterns.
RECURSIVE CompleteGroups(_)
CompleteGroups(all_files_by_pattern) ==
    IF all_files_by_pattern = <<>> THEN 0
    ELSE (IF IsComplete(Head(all_files_by_pattern)[2]) THEN 1 ELSE 0)
             + CompleteGroups(Tail(all_files_by_pattern))

RECURSIVE IncompleteGroups(_)
IncompleteGroups(all_files_by_pattern) ==
    IF all_files_by_pattern = <<>> THEN 0
    ELSE (IF IsComplete(Head(all_files_by_pattern)[2]) THEN 0 ELSE 1)
             + IncompleteGroups(Tail(all_files_by_pattern))

\* The file groups: the complete slot lists, in the order of the patterns.
RECURSIVE FileGroups(_)
FileGroups(all_files_by_pattern) ==
    IF all_files_by_pattern = <<>> THEN <<>>
    ELSE LET file_list == Head(all_files_by_pattern)[2] IN
         (IF IsComplete(file_list) THEN <<file_list>> ELSE <<>>)
             \o FileGroups(Tail(all_files_by_pattern))

-----------------------------------------------------------------------------
(* _merge_single_group and _add_record_data on one record *)

\* record.get(id_field), or record.get('an') when that is falsy
RecordId(record, id_field) ==
    LET record_id == DictGet(record, id_field) IN
    IF ~Truthy(record_id) THEN DictGet(record, "an") ELSE record_id

\* `if not record_id: raise ValueError`
MissingIdentifier(record, id_field) == ~Truthy(RecordId(record, id_field))

\* AddRecordData that leaves a key the target already has as it is.
RECURSIVE AddRecordDataKeepFirst(_, _, _)
AddRecordDataKeepFirst(target_record, source_record, id_field) ==
    IF source_record = <<>> THEN target_record
    ELSE LET key == Head(source_record)[1]
             value == Head(source_record)[2]
         IN  AddRecordDataKeepFirst(IF key # id_field /\ ~DictHas(target_record, key)
                                    THEN DictSet(target_record, key, value)
                                    ELSE target_record,
                                    Tail(source_record), id_field)

\* AddRecordData without the test of the key: the identifier field is
\* copied from the source record like any other.
RECURSIVE AddRecordDataCopyAll(_, _, _)
AddRecordDataCopyAll(target_record, source_record, id_field) ==
    IF source_record = <<>> THEN target_record
    ELSE AddRecordDataCopyAll(DictSet(target_record, Head(source_record)[1],
                                      Head(source_record)[2]),
                              Tail(source_record), id_field)

\* Every item of source_record but the one under id_field is set in
\* target_record.
RECURSIVE AddRecordData(_, _, _)
AddRecordData(target_record, source_record, id_field) ==
    IF source_record = <<>> THEN target_record
    ELSE LET key == Head(source_record)[1]
             value == Head(source_record)[2]
         IN  AddRecordData(IF key # id_field
                           THEN DictSet(target_record, key, value)
                           ELSE target_record,
                           Tail(source_record), id_field)

\* SeedRecord starting the dict anew for an identifier not seen before.
SeedRecordAnew(records_by_id, record_id, id_field) ==
    IF ~DictHas(records_by_id, record_id)
    THEN << <<record_id, << <<id_field, record_id>> >> >> >>
    ELSE records_by_id

\* `if record_id not in records_by_id: records_by_id[record_id] = {id_field: record_id}`
SeedRecord(records_by_id, record_id, id_field) ==
    IF ~DictHas(records_by_id, record_id)
    THEN DictSet(records_by_id, record_id, << <<id_field, record_id>> >>)
    ELSE records_by_id

\* The body of the record loop for a record that has an identifier.
MergeRecord(records_by_id, record, id_field) ==
    LET record_id == RecordId(record, id_field)
        seeded == SeedRecord(records_by_id, record_id, id_field)
    IN  DictSet(seeded, record_id,
                AddRecordData(DictGet(seeded, record_id), record, id_field))

\* stop_after_attempt(3)
MaxAttempts == 3

-----------------------------------------------------------------------------
(* State *)

VARIABLES
    args,                 \* the parameters the script runs with
    fs,                   \* the input files: path -> what the file holds
    pc,                   \* where the script is
    exc,                  \* the exception that ended it
    tagged_results_dirs,  \* self.tagged_results_dirs
    output_dir_made,      \* self.output_dir.mkdir was called
    scanned,              \* the directories globbed by the scan
    file_groups,          \* the list discover_merge_files returned
    task,                 \* the process_group call of each group
    opened,               \* the input paths _load_json_file has opened
    outdir,               \* the output directory: file name -> records written
    results               \* the list merge_files returned

vars == <<args, fs, pc, exc, tagged_results_dirs, output_dir_made, scanned,
          file_groups, task, opened, outdir, results>>

PyList(items) == <<"list", items>>
PyDict(items) == <<"dict", items>>

InputPaths ==
    {Path(DirRule, File_1_r), Path(DirTpu, File_1_t), Path(DirRule, File_2_r),
     Path(DirTpu, File_2_t), Path(DirRule, File_notes)}

\* The file systems of the runs over several groups: each file may be
\* missing, and holds one of a few things when it is there.
RunFileSystems ==
    {[p \in InputPaths |->
        CASE p = Path(DirRule, File_1_r) -> c1r
          [] p = Path(DirTpu, File_1_t) -> c1t
          [] p = Path(DirRule, File_2_r) -> c2r
          [] p = Path(DirTpu, File_2_t) -> c2t
          [] OTHER -> cn] :
        c1r \in {Absent, ObjectFile, ListFile(<<>>), ListFile(<<Rec_a1_x1>>),
                 ListFile(<<Rec_x1>>), ListFile(<<Rec_a1_orig>>)},
        c1t \in {Absent, CorruptFile, ListFile(<<Rec_a1_x2>>)},
        c2r \in {Absent, ListFile(<<>>), ListFile(<<Rec_a2_x1>>), ListFile(<<Rec_a2_orig>>)},
        c2t \in {Absent, CorruptFile, ListFile(<<Rec_an1_y2>>)},
        cn \in {Absent, ListFile(<<>>)}}

\* The file systems of the runs over one group of two files, each file any
\* list of up to MaxRecs records of its directory's pool, or no list, or
\* unparsable.
MergeContents(pool) ==
    {ListFile(recs) : recs \in SeqsUpTo(pool, MaxRecs)} \cup {ObjectFile, CorruptFile}

MergeFileSystems ==
    {[p \in InputPaths |->
        CASE p = Path(DirRule, File_1_r) -> c1r
          [] p = Path(DirTpu, File_1_t) -> c1t
          [] OTHER -> Absent] :
        c1r \in MergeContents(RulePool), c1t \in MergeContents(TpuPool)}

\* The tag_results_dirs arguments of the runs.
DirArgs ==
    {None, PyList(<<>>), PyList(<<DirRule>>), PyList(<<DirRule, DirTpu>>),
     PyList(<<DirRule, DirTpu, DirLlm>>), PyList(<<DirLlm, DirRule>>)}

NoFiles == [name \in {} |-> <<>>]

InitState ==
    /\ pc = "start"
    /\ exc = "none"
    /\ tagged_results_dirs = <<>>
    /\ output_dir_made = FALSE
    /\ scanned = {}
    /\ file_groups = <<>>
    /\ task = <<>>
    /\ opened = {}
    /\ outdir = NoFiles
    /\ results = None

Init ==
    /\ args \in [tag_results_dirs : DirArgs, id_field : {"id"},
                 save_disaggregrated_files : BOOLEAN, append_merge_results : BOOLEAN]
    /\ fs \in RunFileSystems
    /\ InitState

InitMerge ==
    /\ args \in [tag_results_dirs : {PyList(<<DirRule, DirTpu>>)}, id_field : {"id", "an"},
                 save_disaggregrated_files : {TRUE}, append_merge_results : {FALSE}]
    /\ fs \in MergeFileSystems
    /\ InitState

-----------------------------------------------------------------------------
(* Tag_Result_Merger(tag_results_dirs) *)

\* NoDirs testing `tag_results_dirs is None` only.
NoDirsOnlyNone(tag_results_dirs) == tag_results_dirs = None

\* `not tag_results_dirs`
NoDirs(tag_results_dirs) == tag_results_dirs = None \/ tag_results_dirs[2] = <<>>

Construct ==
    /\ pc = "start"
    /\ IF NoDirs(args.tag_results_dirs)
       THEN /\ pc' = "raised"
            /\ exc' = "ValueError"
            /\ UNCHANGED <<tagged_results_dirs, output_dir_made>>
       ELSE /\ tagged_results_dirs' = args.tag_results_dirs[2]
            /\ output_dir_made' = TRUE
            /\ pc' = "constructed"
            /\ exc' = exc
    /\ UNCHANGED <<args, fs, scanned, file_groups, task, opened, outdir, results>>

-----------------------------------------------------------------------------
(* discover_merge_files() *)

\* MissingDir looking at the first directory only.
MissingDirFirstOnly(dirs) == dirs[1] \notin ExistingDirs

\* The check that every directory exists, made before any is scanned.
MissingDir(dirs) == \E i \in 1..Len(dirs) : dirs[i] \notin ExistingDirs

\* The enumerations the scan can meet: one order of its *.json files for
\* each directory.
Listings(f, dirs) ==
    {listing \in [1..Len(dirs) -> UNION {Orders(Glob(f, dirs[d])) : d \in 1..Len(dirs)}] :
        \A d \in 1..Len(dirs) : listing[d] \in Orders(Glob(f, dirs[d]))}

\* all_files_by_pattern after the scan
PatternMap(dirs, listing) == ScanDirs(<<>>, Len(dirs), 1, listing)

DiscoverMergeFiles ==
    /\ pc = "constructed"
    /\ IF MissingDir(tagged_results_dirs)
       THEN /\ pc' = "raised"
            /\ exc' = "FileNotFoundError"
            /\ UNCHANGED <<scanned, file_groups>>
       ELSE \E listing \in Listings(fs, tagged_results_dirs) :
            /\ file_groups' = FileGroups(PatternMap(tagged_results_dirs, listing))
            /\ scanned' = {tagged_results_dirs[d] : d \in 1..Len(tagged_results_dirs)}
            /\ pc' = "discovered"
            /\ exc' = exc
    /\ UNCHANGED <<args, fs, tagged_results_dirs, output_dir_made, task, opened,
                   outdir, results>>

-----------------------------------------------------------------------------
(* merge_files(file_groups, id_field, save_disaggregrated_files,           *)
(* append_merge_results): the joblib workers run process_group on the      *)
(* groups in any interleaving; an exception of a worker is raised again    *)
(* in the caller.                                                          *)

Groups == 1..Len(file_groups)

NewTask ==
    [pc |-> "load", file |-> 1, attempt |-> 0, rec |-> 0, records_by_id |-> <<>>,
     exc |-> "none", ret |-> None]

MergeFiles ==
    /\ pc = "discovered"
    /\ pc' = "merging"
    /\ task' = [g \in Groups |-> NewTask]
    /\ UNCHANGED <<args, fs, exc, tagged_results_dirs, output_dir_made, scanned,
                   file_groups, opened, outdir, results>>

\* What open() and json.load find at a path.
Content(f, path) == IF path \in DOMAIN f THEN f[path] ELSE Absent

Raised(t, exception) == [t EXCEPT !.pc = "raised", !.exc = exception]

\* The end of the record loop of one file: the next file of the group, or
\* the end of the file loop.
NextFile(t, num_files) ==
    IF t.file = num_files
    THEN [t EXCEPT !.pc = "merged"]
    ELSE [t EXCEPT !.pc = "load", !.file = @ + 1, !.attempt = 0, !.rec = 0]

\* Loaded going on to the next file when the last attempt failed, the
\* file taken as holding no record.
LoadedGoesOn(t, content, io_error, num_files) ==
    IF io_error \/ content \in {Absent, CorruptFile}
    THEN IF t.attempt + 1 >= MaxAttempts
         THEN NextFile([t EXCEPT !.attempt = @ + 1], num_files)
         ELSE [t EXCEPT !.attempt = @ + 1]
    ELSE IF content[1] # "list"
    THEN Raised(t, "TypeError")
    ELSE IF content[2] = <<>>
    THEN NextFile(t, num_files)
    ELSE [t EXCEPT !.pc = "fold", !.rec = 1]

\* Loaded stopping one attempt late.
LoadedOneMore(t, content, io_error, num_files) ==
    IF io_error \/ content \in {Absent, CorruptFile}
    THEN IF t.attempt + 1 > MaxAttempts
         THEN Raised([t EXCEPT !.attempt = @ + 1], "RetryError")
         ELSE [t EXCEPT !.attempt = @ + 1]
    ELSE IF content[1] # "list"
    THEN Raised(t, "TypeError")
    ELSE IF content[2] = <<>>
    THEN NextFile(t, num_files)
    ELSE [t EXCEPT !.pc = "fold", !.rec = 1]

\* One attempt of _load_json_file under @retry, and the start of the record
\* loop on what it returns.  open() or json.load raising is retried until
\* MaxAttempts attempts were made; None, returned for a value that is no
\* list, is what `for record in file_records` then iterates.
Loaded(t, content, io_error, num_files) ==
    IF io_error \/ content \in {Absent, CorruptFile}
    THEN IF t.attempt + 1 >= MaxAttempts
         THEN Raised([t EXCEPT !.attempt = @ + 1], "RetryError")
         ELSE [t EXCEPT !.attempt = @ + 1]
    ELSE IF content[1] # "list"
    THEN Raised(t, "TypeError")
    ELSE IF content[2] = <<>>
    THEN NextFile(t, num_files)
    ELSE [t EXCEPT !.pc = "fold", !.rec = 1]

LoadAttempt(g) ==
    /\ pc = "merging"
    /\ task[g].pc = "load"
    /\ LET path == file_groups[g][task[g].file] IN
       /\ opened' = opened \cup {path}
       /\ \E io_error \in BOOLEAN :
              task' = [task EXCEPT ![g] =
                          Loaded(@, Content(fs, path), io_error, Len(file_groups[g]))]
    /\ UNCHANGED <<args, fs, pc, exc, tagged_results_dirs, output_dir_made, scanned,
                   file_groups, outdir, results>>

\* Folded as an inner join: a record of a later file whose identifier the
\* earlier files do not have is passed over.
FoldedInnerJoin(t, file_records, id_field, num_files) ==
    LET record == file_records[t.rec] IN
    IF MissingIdentifier(record, id_field)
    THEN Raised(t, "ValueError")
    ELSE LET merged ==
                 IF t.file > 1 /\ ~DictHas(t.records_by_id, RecordId(record, id_field))
                 THEN t
                 ELSE [t EXCEPT !.records_by_id = MergeRecord(@, record, id_field)]
         IN  IF t.rec = Len(file_records)
             THEN NextFile(merged, num_files)
             ELSE [merged EXCEPT !.rec = @ + 1]

\* Folded passing over a record without identifier instead of raising.
FoldedSkipRecord(t, file_records, id_field, num_files) ==
    LET record == file_records[t.rec]
        merged == IF MissingIdentifier(record, id_field)
                  THEN t
                  ELSE [t EXCEPT !.records_by_id = MergeRecord(@, record, id_field)]
    IN  IF t.rec = Len(file_records)
        THEN NextFile(merged, num_files)
        ELSE [merged EXCEPT !.rec = @ + 1]

\* One pass of the record loop of _merge_single_group.
Folded(t, file_records, id_field, num_files) ==
    LET record == file_records[t.rec] IN
    IF MissingIdentifier(record, id_field)
    THEN Raised(t, "ValueError")
    ELSE LET merged == [t EXCEPT !.records_by_id = MergeRecord(@, record, id_field)] IN
         IF t.rec = Len(file_records)
         THEN NextFile(merged, num_files)
         ELSE [merged EXCEPT !.rec = @ + 1]

FoldRecord(g) ==
    /\ pc = "merging"
    /\ task[g].pc = "fold"
    /\ task' = [task EXCEPT ![g] =
                   Folded(@, Content(fs, file_groups[g][task[g].file])[2],
                          args.id_field, Len(file_groups[g]))]
    /\ UNCHANGED <<args, fs, pc, exc, tagged_results_dirs, output_dir_made, scanned,
                   file_groups, opened, outdir, results>>

\* MergedGroup without `if not records_by_id: return None`.
MergedGroupAlways(records_by_id, file_group, group_index) ==
    PyDict(<< <<"group_index", JNum(group_index)>>,
              <<"source_files",
                PyList([i \in 1..Len(file_group) |-> JStr(PathName(file_group[i]))])>>,
              <<"records", PyList(DictValues(records_by_id))>> >>)

\* What _merge_single_group returns once the file loop has ended.
MergedGroup(records_by_id, file_group, group_index) ==
    IF records_by_id = <<>>
    THEN None
    ELSE PyDict(<< <<"group_index", JNum(group_index)>>,
                   <<"source_files",
                     PyList([i \in 1..Len(file_group) |-> JStr(PathName(file_group[i]))])>>,
                   <<"records", PyList(DictValues(records_by_id))>> >>)

\* merged['records']
RecordsOf(merged) == DictGet(merged[2], "records")[2]

\* The name of the file a merged group is saved under.
OutputFilename(merged, file_group) ==
    LET first_record == IF RecordsOf(merged) # <<>> THEN RecordsOf(merged)[1] ELSE <<>>
        original_filename == DictGet(first_record, "ILA_original_filename")
    IN  Format(IF ~Truthy(original_filename)
               THEN JStr(Stem(PathName(file_group[1])))
               ELSE original_filename) \o Str_json

\* The text of the placeholder, "skip to save memory", by its first word.
Str_skip == <<"s", "k", "i", "p">>

\* Returned handing back the merged group whatever append_merge_results is.
ReturnedAlwaysMerged(merged, file_group, idx, save, append, write_error) ==
    IF merged = None THEN None
    ELSE IF save
    THEN IF write_error THEN None ELSE JStr(OutputFilename(merged, file_group))
    ELSE merged

\* The rest of process_group: what it returns for the merged group.  In
\* save mode the write is inside try/except, and a failed write returns None.
Returned(merged, file_group, idx, save, append, write_error) ==
    IF merged = None THEN None
    ELSE IF save
    THEN IF write_error THEN None ELSE JStr(OutputFilename(merged, file_group))
    ELSE IF append THEN merged
    ELSE PyDict(<< <<"group_index", JNum(idx)>>, <<"records", JStr(Str_skip)>> >>)

\* The output directory after json.dump wrote `records` to file `name`.
Written(dir, name, records) ==
    [n \in DOMAIN dir \cup {name} |-> IF n = name THEN records ELSE dir[n]]

\* FinishGroup writing the merged records whatever the mode is.
FinishGroupAlwaysWrites(g) ==
    /\ pc = "merging"
    /\ task[g].pc = "merged"
    /\ LET merged == MergedGroup(task[g].records_by_id, file_groups[g], g - 1) IN
       \E write_error \in BOOLEAN :
          LET ret == Returned(merged, file_groups[g], g - 1,
                              args.save_disaggregrated_files,
                              args.append_merge_results, write_error)
          IN  /\ task' = [task EXCEPT ![g].pc = "returned", ![g].ret = ret]
              /\ outdir' = IF ret # None
                           THEN Written(outdir, OutputFilename(merged, file_groups[g]),
                                        RecordsOf(merged))
                           ELSE outdir
    /\ UNCHANGED <<args, fs, pc, exc, tagged_results_dirs, output_dir_made, scanned,
                   file_groups, opened, results>>

FinishGroup(g) ==
    /\ pc = "merging"
    /\ task[g].pc = "merged"
    /\ LET merged == MergedGroup(task[g].records_by_id, file_groups[g], g - 1) IN
       \E write_error \in BOOLEAN :
          LET ret == Returned(merged, file_groups[g], g - 1,
                              args.save_disaggregrated_files,
                              args.append_merge_results, write_error)
          IN  /\ task' = [task EXCEPT ![g].pc = "returned", ![g].ret = ret]
              /\ outdir' = IF args.save_disaggregrated_files /\ ret # None
                           THEN Written(outdir, ret[2], RecordsOf(merged))
                           ELSE outdir
    /\ UNCHANGED <<args, fs, pc, exc, tagged_results_dirs, output_dir_made, scanned,
                   file_groups, opened, results>>

\* FilterNone over results taken last first.
RECURSIVE FilterNoneReversed(_)
FilterNoneReversed(rets) ==
    IF rets = <<>> THEN <<>>
    ELSE FilterNoneReversed(Tail(rets)) \o (IF Head(rets) # None THEN <<Head(rets)>> ELSE <<>>)

\* `results = [r for r in results if r is not None]`
RECURSIVE FilterNone(_)
FilterNone(rets) ==
    IF rets = <<>> THEN <<>>
    ELSE (IF Head(rets) # None THEN <<Head(rets)>> ELSE <<>>) \o FilterNone(Tail(rets))

\* `sum(len(group['records']) for group in results)` subscripts every
\* result with 'records': a str result, a saved path, cannot be.
SumRaises(rets) == \E i \in 1..Len(rets) : rets[i][1] = "str"

\* Parallel(...) returns once every worker has returned.
ParallelReturn ==
    /\ pc = "merging"
    /\ \A g \in Groups : task[g].pc = "returned"
    /\ LET filtered == FilterNone([g \in Groups |-> task[g].ret]) IN
       IF args.append_merge_results /\ SumRaises(filtered)
       THEN /\ pc' = "raised"
            /\ exc' = "TypeError"
            /\ results' = results
       ELSE /\ pc' = "returned"
            /\ exc' = exc
            /\ results' = PyList(filtered)
    /\ UNCHANGED <<args, fs, tagged_results_dirs, output_dir_made, scanned,
                   file_groups, task, opened, outdir>>

\* Parallel(...) raises in merge_files the exception a worker raised; the
\* workers still running are stopped.
ParallelRaise ==
    /\ pc = "merging"
    /\ \E g \in Groups :
          /\ task[g].pc = "raised"
          /\ exc' = task[g].exc
    /\ pc' = "raised"
    /\ UNCHANGED <<args, fs, tagged_results_dirs, output_dir_made, scanned,
                   file_groups, task, opened, outdir, results>>

-----------------------------------------------------------------------------
(* Specifications *)

Next ==
    \/ Construct
    \/ DiscoverMergeFiles
    \/ MergeFiles
    \/ \E g \in Groups : LoadAttempt(g)
    \/ \E g \in Groups : FoldRecord(g)
    \/ \E g \in Groups : FinishGroup(g)
    \/ ParallelReturn
    \/ ParallelRaise

\* The script over several groups of small files.
Spec == Init /\ [][Next]_vars

\* The script over one group of two files of any records.
SpecMerge == InitMerge /\ [][Next]_vars

\* FreshTask with the dict of the last group's merge still in the merger.
FreshTaskShared(tasks, g) ==
    [NewTask EXCEPT !.records_by_id = tasks[Len(tasks)].records_by_id]

\* The start of a call of _merge_single_group made after others have
\* ended: `records_by_id = {}` is a local of the call, and the merger keeps
\* nothing of the calls before it.
FreshTask(tasks, g) == NewTask

\* merge_files called once more on the same file groups with the same
\* arguments, after it has returned; `results` is still the list the call
\* before returned.
MergeFilesAgain ==
    /\ pc = "returned"
    /\ pc' = "merging"
    /\ task' = [g \in Groups |-> FreshTask(task, g)]
    /\ UNCHANGED <<args, fs, exc, tagged_results_dirs, output_dir_made, scanned,
                   file_groups, opened, outdir, results>>

\* The runs that keep the merged groups in memory.
InitTwice ==
    /\ args \in [tag_results_dirs : {PyList(<<DirRule>>), PyList(<<DirRule, DirTpu>>)},
                 id_field : {"id"}, save_disaggregrated_files : {FALSE},
                 append_merge_results : {TRUE}]
    /\ fs \in RunFileSystems
    /\ InitState

NextTwice ==
    \/ Next
    \/ MergeFilesAgain

\* The script with merge_files called again and again on the groups found.
SpecTwice == InitTwice /\ [][NextTwice]_vars

\* Files per directory in the file systems of the scan.
MaxFiles == 3

\* The names a directory of the scan may hold.
RuleNames ==
    {File_1_r, File_1_t, File_1, File_2, File_article_1, File_y_1, File_articles,
     File_notes}

TpuNames == {File_1_r, File_1_t, File_1, File_2}

ScanPaths == {Path(DirRule, n) : n \in RuleNames} \cup {Path(DirTpu, n) : n \in TpuNames}

\* Directories of at most MaxFiles files each, the files empty lists.
ScanFileSystems ==
    {[p \in ScanPaths |-> IF p \in present THEN ListFile(<<>>) ELSE Absent] :
        present \in {S \in SUBSET ScanPaths :
                        /\ Cardinality({p \in S : PathDir(p) = DirRule}) <= MaxFiles
                        /\ Cardinality({p \in S : PathDir(p) = DirTpu}) <= MaxFiles}}

InitScan ==
    /\ args \in [tag_results_dirs : {PyList(<<DirRule>>), PyList(<<DirRule, DirTpu>>)},
                 id_field : {"id"}, save_disaggregrated_files : {TRUE},
                 append_merge_results : {FALSE}]
    /\ fs \in ScanFileSystems
    /\ InitState

NextScan ==
    \/ Construct
    \/ DiscoverMergeFiles

\* The script up to the list of file groups, over directories of files of
\* many names.
SpecScan == InitScan /\ [][NextScan]_vars

-----------------------------------------------------------------------------
(* What the claims speak of *)

Range(s) == {s[i] : i \in 1..Len(s)}

\* The records of the file at `path`, when it holds a list.
FileRecords(path) ==
    IF path # None /\ Content(fs, path)[1] = "list" THEN Content(fs, path)[2] ELSE <<>>

\* The records of the first n files of group g, in order.
RECURSIVE RecordsOfFiles(_, _)
RecordsOfFiles(g, n) ==
    IF n = 0 THEN <<>>
    ELSE RecordsOfFiles(g, n - 1) \o FileRecords(file_groups[g][n])

AllRecords(g) == RecordsOfFiles(g, Len(file_groups[g]))

\* The records of group g the record loop has passed.
FoldedSoFar(g) ==
    IF task[g].pc \in {"merged", "returned"}
    THEN AllRecords(g)
    ELSE RecordsOfFiles(g, task[g].file - 1)
             \o SubSeq(FileRecords(file_groups[g][task[g].file]), 1, task[g].rec - 1)

\* Group g has come through its file loop.
Merged(g) == task[g].pc \in {"merged", "returned"}

\* What _merge_single_group returns for group g.
MergedOf(g) == MergedGroup(task[g].records_by_id, file_groups[g], g - 1)

\* A record with neither the identifier field nor 'an'.
LacksBoth(record) == ~DictHas(record, args.id_field) /\ ~DictHas(record, "an")

\* The name group g is saved under when no record names its original file.
StemName(g) == Stem(PathName(file_groups[g][1])) \o Str_json

-----------------------------------------------------------------------------
(* C1 *)

\* C1: a group whose merge fails for a record without identifier
\* (ValueError) or a load that failed on its last retry (RetryError) does
\* not abort the run: merge_files does not raise, and once it has returned
\* every other group was processed to its end.
C1_FaultIsolation ==
    \A g \in DOMAIN task :
        task[g].exc \in {"ValueError", "RetryError"} /\ Len(file_groups) >= 2 =>
            /\ pc # "raised"
            /\ pc = "returned" =>
                   \A h \in DOMAIN task \ {g} :
                       task[h].exc = "none" => task[h].pc = "returned"

-----------------------------------------------------------------------------
(* C2 *)

MergedIds(g) == {DictGet(r, args.id_field) : r \in Range(RecordsOf(MergedOf(g)))}

SourceIds(g) == {RecordId(r, args.id_field) : r \in Range(AllRecords(g))}

\* C2: the identifiers of the merged group of a group whose files all
\* loaded as lists of records with identifiers are the union of the
\* identifiers of its files, one merged record for each.
C2_UnionOfIdentifiers ==
    \A g \in DOMAIN task :
        Merged(g) /\ MergedOf(g) # None =>
            /\ MergedIds(g) = SourceIds(g)
            /\ Len(RecordsOf(MergedOf(g))) = Cardinality(SourceIds(g))
            /\ DictKeys(task[g].records_by_id) = SourceIds(g)

\* A merged group of two records, one whose identifier only the first file
\* has and one whose identifier only the second file has.
C2_Witness ==
    \E g \in DOMAIN task :
        /\ Merged(g)
        /\ Len(task[g].records_by_id) = 2
        /\ FileRecords(file_groups[g][1]) = <<Rec_a1_x1>>
        /\ FileRecords(file_groups[g][2]) = <<Rec_a2_x1>>

-----------------------------------------------------------------------------
(* C3 *)

\* The last of the records src that has identifier x and defines key k.
LastDefining(src, x, k) ==
    CHOOSE i \in 1..Len(src) :
        /\ RecordId(src[i], args.id_field) = x /\ DictHas(src[i], k)
        /\ \A j \in (i + 1)..Len(src) :
               ~(RecordId(src[j], args.id_field) = x /\ DictHas(src[j], k))

-----------------------------------------------------------------------------
(* C4 *)

\* The value under the identifier field of the merged record of x.
IdentifierOf(records_by_id, x) == DictGet(DictGet(records_by_id, x), args.id_field)

\* C4: in every step of a merge, the merged record of every identifier
\* seeded before the step is still there after it, with the value under
\* the identifier field it had, which is the identifier it was seeded for.
C4_IdentifierKept ==
    [][\A g \in DOMAIN task :
          g \in DOMAIN task' =>
              \A x \in DictKeys(task[g].records_by_id) :
                  /\ DictHas(task'[g].records_by_id, x)
                  /\ IdentifierOf(task'[g].records_by_id, x) = x
                  /\ IdentifierOf(task[g].records_by_id, x) = x]_vars

\* The merged record of a2, seeded by a record whose id is a2, after a
\* record whose id is 0 and whose an is a2 was folded into it.
C4_Witness ==
    \E g \in DOMAIN task :
        /\ args.id_field = "id"
        /\ Merged(g)
        /\ FileRecords(file_groups[g][1]) = <<Rec_a2_x1, Rec_id0_an2>>
        /\ DictHas(DictGet(task[g].records_by_id, JStr(Str_a2)), "an")
        /\ IdentifierOf(task[g].records_by_id, JStr(Str_a2)) = JStr(Str_a2)

-----------------------------------------------------------------------------
(* C5 *)

\* The base pattern of every input path, computed once.
PatternOf == [p \in InputPaths |-> BasePattern(PathName(p))]

\* Directory number d of the merger has a *.json file of this pattern.
HasFileFor(pattern, d) ==
    \E p \in Glob(fs, tagged_results_dirs[d]) : PatternOf[p] = pattern

\* Some directory of the merger has no file of this pattern.
Incomplete(pattern) == \E d \in 1..Len(tagged_results_dirs) : ~HasFileFor(pattern, d)

\* C5: every slot of every file group is filled, no file of a pattern that
\* some directory has no file of is in a file group, and no such file is
\* ever opened by the merge.
C5_CompletenessGate ==
    /\ \A g \in 1..Len(file_groups) :
           /\ Len(file_groups[g]) = Len(tagged_results_dirs)
           /\ \A i \in 1..Len(file_groups[g]) :
                  /\ file_groups[g][i] # None
                  /\ PathDir(file_groups[g][i]) = tagged_results_dirs[i]
                  /\ ~Incomplete(PatternOf[file_groups[g][i]])
    /\ \A p \in opened :
           /\ p # None
           /\ ~Incomplete(PatternOf[p])

\* A finished run over two directories where batch 1 has a file in both
\* and batch 2 only in the first: one group, and the file of batch 2 unread.
C5_Witness ==
    /\ pc = "returned"
    /\ Len(tagged_results_dirs) = 2
    /\ fs[Path(DirRule, File_2_r)] # Absent
    /\ fs[Path(DirTpu, File_2_t)] = Absent
    /\ Len(file_groups) = 1
    /\ Path(DirRule, File_1_r) \in opened
    /\ Path(DirRule, File_2_r) \notin opened

-----------------------------------------------------------------------------
(* C6 *)

\* C6: a load is never attempted more than MaxAttempts times; it ends in
\* RetryError exactly when MaxAttempts attempts failed; every load starts
\* with a count of its own; and a load that succeeds after failures gives
\* its records to the merge like any other.
C6_RetryBound ==
    /\ [](\A g \in DOMAIN task :
              /\ task[g].attempt <= MaxAttempts
              /\ task[g].exc = "RetryError" <=> task[g].attempt = MaxAttempts
              /\ task[g].pc = "fold" =>
                     /\ task[g].attempt < MaxAttempts
                     /\ FileRecords(file_groups[g][task[g].file]) # <<>>
              /\ Merged(g) => DictKeys(task[g].records_by_id) = SourceIds(g))
    /\ [][\A g \in DOMAIN task' :
              /\ task'[g].pc = "load"
              /\ (g \notin DOMAIN task \/ task'[g].file # task[g].file)
              => task'[g].attempt = 0]_vars

\* A group merged with the records of a file that loaded on its third
\* attempt.
C6_Witness ==
    \E g \in DOMAIN task :
        /\ Merged(g)
        /\ task[g].attempt = MaxAttempts - 1
        /\ FileRecords(file_groups[g][task[g].file]) # <<>>
        /\ DictKeys(task[g].records_by_id) = SourceIds(g)

-----------------------------------------------------------------------------
(* C7 *)

\* C7: a file that parses to a value that is no list gives the group no
\* record and no error: opening it raises nothing in the group, and with
\* its other files loaded the group comes through its file loop.
C7_NotAListSkipped ==
    \A g \in DOMAIN task :
        (\E i \in 1..task[g].file :
            /\ file_groups[g][i] \in opened
            /\ Content(fs, file_groups[g][i]) = ObjectFile)
        => task[g].exc \notin {"TypeError"}

-----------------------------------------------------------------------------
(* C8 *)

\* The identifier of a record as the claim has it: the value of the
\* identifier field when the record has the field, else the value of 'an'.
FieldIdentifier(record) ==
    IF DictHas(record, args.id_field)
    THEN DictGet(record, args.id_field)
    ELSE DictGet(record, "an")

\* C8: the merge raises for a missing identifier only at a record that has
\* neither field, and every record it has passed was merged under the
\* value of its identifier field when it has that field, else of 'an'.
C8_IdentifierResolution ==
    \A g \in DOMAIN task :
        /\ task[g].exc = "ValueError" =>
               LacksBoth(FileRecords(file_groups[g][task[g].file])[task[g].rec])
        /\ \A r \in Range(FoldedSoFar(g)) :
               DictHas(task[g].records_by_id, FieldIdentifier(r))

-----------------------------------------------------------------------------
(* C9 *)

\* C9: a group with a record that has neither identifier field, in any of
\* its files, never comes through its file loop: process_group returns
\* nothing for it and no file is written under its name.
C9_MissingIdentifierFatal ==
    \A g \in DOMAIN task :
        (\E r \in Range(AllRecords(g)) : LacksBoth(r)) =>
            /\ ~Merged(g)
            /\ task[g].ret = None
            /\ StemName(g) \notin DOMAIN outdir

\* The merge of a group ended by a record without identifier after records
\* before it were merged, and the run ended with nothing written.
C9_Witness ==
    \E g \in DOMAIN task :
        /\ task[g].exc = "ValueError"
        /\ task[g].file = 2
        /\ task[g].records_by_id # <<>>
        /\ LacksBoth(FileRecords(file_groups[g][2])[task[g].rec])
        /\ pc = "raised"
        /\ outdir = NoFiles

-----------------------------------------------------------------------------
(* C10 *)

\* C10: with None or an empty list for tag_results_dirs the constructor
\* raises ValueError and nothing else happens: no merger, no mkdir of the
\* output directory, no scan, no load.
C10_EmptyDirsRejected ==
    args.tag_results_dirs \in {None, PyList(<<>>)} =>
        /\ pc \in {"start", "raised"}
        /\ pc = "raised" => exc = "ValueError"
        /\ tagged_results_dirs = <<>>
        /\ ~output_dir_made
        /\ scanned = {}
        /\ file_groups = <<>>
        /\ opened = {}

\* The constructor has raised for an empty list.
C10_Witness ==
    /\ args.tag_results_dirs = PyList(<<>>)
    /\ pc = "raised"
    /\ exc = "ValueError"

-----------------------------------------------------------------------------
(* C11 *)

\* C11: when a directory given to the constructor does not exist, wherever
\* it is in the list, discover_merge_files raises FileNotFoundError with
\* no directory scanned, no file group returned and, after it, no file
\* opened.
C11_MissingDirRejected ==
    (args.tag_results_dirs # None /\ DirLlm \in Range(args.tag_results_dirs[2])) =>
        /\ pc \in {"start", "constructed", "raised"}
        /\ pc = "raised" => exc = "FileNotFoundError"
        /\ scanned = {}
        /\ file_groups = <<>>
        /\ task = <<>>
        /\ opened = {}

\* The scan has raised for a list whose last directory is the missing one,
\* the two before it holding a complete group.
C11_Witness ==
    /\ args.tag_results_dirs = PyList(<<DirRule, DirTpu, DirLlm>>)
    /\ fs[Path(DirRule, File_1_r)] # Absent
    /\ fs[Path(DirTpu, File_1_t)] # Absent
    /\ pc = "raised"
    /\ exc = "FileNotFoundError"

-----------------------------------------------------------------------------
(* C12 *)

\* The groups process_group has returned something other than None for.
Kept == {g \in DOMAIN task : task[g].ret # None}

\* C12: a group that came through its file loop has None for its merged
\* group exactly when its files hold no record; process_group then returns
\* None without raising, in every mode, no file is written for it, and the
\* list merge_files returns has an entry for the other groups only.
C12_EmptyGroupDropped ==
    /\ \A g \in DOMAIN task :
           Merged(g) =>
               /\ MergedOf(g) = None <=> AllRecords(g) = <<>>
               /\ AllRecords(g) = <<>> =>
                      /\ task[g].ret = None
                      /\ task[g].exc = "none"
                      /\ StemName(g) \notin DOMAIN outdir
    /\ pc = "returned" => Len(results[2]) = Cardinality(Kept)

\* A finished run over two groups, the first of an empty file and dropped,
\* the second kept.
C12_Witness ==
    /\ pc = "returned"
    /\ Len(file_groups) = 2
    /\ \E g, h \in DOMAIN task :
           /\ AllRecords(g) = <<>>
           /\ task[g].ret = None
           /\ task[h].ret # None
    /\ Len(results[2]) = 1

-----------------------------------------------------------------------------
(* C13 *)

\* The name the merged group of g is to be saved under: the first merged
\* record's ILA_original_filename when it has one, else the stem of the
\* first file of the group.
SavedName(g) ==
    LET first_record == RecordsOf(MergedOf(g))[1] IN
    IF DictHas(first_record, "ILA_original_filename")
    THEN DictGet(first_record, "ILA_original_filename")[2] \o Str_json
    ELSE StemName(g)

\* The groups whose merged group was written.
Saved == {g \in DOMAIN task : task[g].pc = "returned" /\ task[g].ret # None}

\* The paths of the saved groups from group `g` on, in the order of the groups.
RECURSIVE SavedPaths(_)
SavedPaths(g) ==
    IF g > Len(task) THEN <<>>
    ELSE (IF g \in Saved THEN <<JStr(SavedName(g))>> ELSE <<>>) \o SavedPaths(g + 1)

\* C13: with save_disaggregrated_files true, every group whose merged group
\* was written has in the output directory the file of its merged records
\* under SavedName, and once every group was processed merge_files has
\* returned the list of the paths written, one for each such group.
C13_PersistPerGroup ==
    args.save_disaggregrated_files =>
        /\ \A g \in Saved :
               /\ task[g].ret = JStr(SavedName(g))
               /\ SavedName(g) \in DOMAIN outdir
               /\ outdir[SavedName(g)] = RecordsOf(MergedOf(g))
        /\ (/\ DOMAIN task # {}
            /\ \A g \in DOMAIN task : task[g].pc = "returned"
            /\ pc # "merging") =>
               /\ pc = "returned"
               /\ results = PyList(SavedPaths(1))

-----------------------------------------------------------------------------
(* C15 *)

\* C15: with save_disaggregrated_files true, two groups of one run whose
\* merged groups were written were written to different paths, and the file
\* of each still holds its own merged records.
C15_DistinctOutputPaths ==
    args.save_disaggregrated_files =>
        \A g, h \in Saved :
            g # h =>
                /\ task[g].ret # task[h].ret
                /\ outdir[task[g].ret[2]] = RecordsOf(MergedOf(g))

-----------------------------------------------------------------------------
(* C16 *)

\* The write of the merged group of g failed.
WriteFailed(g) ==
    /\ args.save_disaggregrated_files
    /\ task[g].pc = "returned"
    /\ MergedOf(g) # None
    /\ task[g].ret = None

\* C16: with save_disaggregrated_files true, a failed write of one merged
\* group raises nothing in its worker, and when no group failed to merge
\* merge_files does not raise and returns the paths of the groups written,
\* the failed one not among them.
C16_WriteFailureIsolated ==
    \A g \in DOMAIN task :
        WriteFailed(g) =>
            /\ task[g].exc = "none"
            /\ (\A h \in DOMAIN task : task[h].exc = "none") =>
                   /\ pc # "raised"
                   /\ pc = "returned" => results = PyList(SavedPaths(1))

-----------------------------------------------------------------------------
(* C14 *)

\* The groups from `g` on whose files gave at least one merged record, in
\* the order of the groups.
RECURSIVE WithRecords(_)
WithRecords(g) ==
    IF g > Len(task) THEN <<>>
    ELSE (IF task[g].records_by_id # <<>> THEN <<g>> ELSE <<>>) \o WithRecords(g + 1)

-----------------------------------------------------------------------------
(* C18 *)

\* The number of files of group g whose record loop has ended.
FilesFolded(g) ==
    IF Merged(g) THEN Len(file_groups[g]) ELSE task[g].file - 1

\* The identifiers of the records of the n-th file of group g.
IdsOfFile(g, n) ==
    {RecordId(r, args.id_field) : r \in Range(FileRecords(file_groups[g][n]))}

\* C18: the merged records of a group are at least as many as the distinct
\* identifiers of each of its files folded in so far, and at the end of the
\* merge of each of its files; no step of the merge makes them fewer.
C18_MonotoneUnion ==
    /\ [](\A g \in DOMAIN task :
              \A n \in 1..FilesFolded(g) :
                  Len(task[g].records_by_id) >= Cardinality(IdsOfFile(g, n)))
    /\ [][\A g \in DOMAIN task \cap DOMAIN task' :
              Len(task'[g].records_by_id) >= Len(task[g].records_by_id)]_vars

\* A merge that has ended with two merged records, of a first file with
\* one identifier and a second file with another.
C18_Witness ==
    \E g \in DOMAIN task :
        /\ Merged(g)
        /\ Cardinality(IdsOfFile(g, 1)) = 1
        /\ Cardinality(IdsOfFile(g, 2)) = 1
        /\ IdsOfFile(g, 1) # IdsOfFile(g, 2)
        /\ Len(task[g].records_by_id) = 2

-----------------------------------------------------------------------------
(* C19 *)

\* C19: every file group has as many entries as the merger has
\* directories, at least one; entry i is a file the scan found in directory
\* i; and the entries of one group all have the pattern of the first.
C19_GroupShape ==
    \A g \in 1..Len(file_groups) :
        /\ Len(file_groups[g]) = Len(tagged_results_dirs)
        /\ Len(file_groups[g]) >= 1
        /\ \A i \in 1..Len(file_groups[g]) :
               /\ file_groups[g][i] # None
               /\ file_groups[g][i] \in Glob(fs, tagged_results_dirs[i])
        /\ \A i \in 1..Len(file_groups[g]) :
               PatternOf[file_groups[g][i]] = PatternOf[file_groups[g][1]]

\* Two groups found over two directories.
C19_Witness ==
    /\ pc = "discovered"
    /\ Len(tagged_results_dirs) = 2
    /\ Len(file_groups) = 2

-----------------------------------------------------------------------------
(* C20 *)

\* The paths whose file name has a pattern.
Patterned == {p \in InputPaths : PatternOf[p] \notin {None, <<>>}}

\* The patterns of which every directory of the merger has a file.
CompletePatterns ==
    {PatternOf[p] : p \in {q \in Patterned : \E d \in 1..Len(tagged_results_dirs) :
                                                 q \in Glob(fs, tagged_results_dirs[d])}}
        \ {PatternOf[p] : p \in {q \in Patterned : Incomplete(PatternOf[q])}}

\* C20: after the scan every entry of every file group is a file whose name
\* has a pattern, there are as many groups as there are patterns with a
\* file in every directory, whatever files without pattern the directories
\* hold, and the scan raises for a missing directory only.
C20_NoPatternSkipped ==
    /\ scanned # {} =>
           /\ \A g \in 1..Len(file_groups) :
                  \A i \in 1..Len(file_groups[g]) : file_groups[g][i] \in Patterned
           /\ Len(file_groups) = Cardinality(CompletePatterns)
    /\ exc = "FileNotFoundError" =>
           \E d \in 1..Len(tagged_results_dirs) : tagged_results_dirs[d] \notin ExistingDirs

\* A scan of one directory that holds a file without pattern beside the
\* files of two batches: two groups.
C20_Witness ==
    /\ pc = "discovered"
    /\ Len(tagged_results_dirs) = 1
    /\ \E p \in Glob(fs, tagged_results_dirs[1]) : p \notin Patterned
    /\ Len(file_groups) = 2

-----------------------------------------------------------------------------
(* C17 *)

\* A call of merge_files after the first is running.
Again == pc = "merging" /\ results # None

\* The entry of the list returned before for the group of index idx, if any.
EntriesBefore(idx) ==
    {e \in Range(results[2]) : DictGet(e[2], "group_index") = JNum(idx)}

-----------------------------------------------------------------------------
(* C21 *)

\* merge_files was called with the defaults of its two mode parameters:
\* save_disaggregrated_files=True, append_merge_results=False.
DefaultOptions ==
    /\ args.save_disaggregrated_files = TRUE
    /\ args.append_merge_results = FALSE

\* C21: merge_files called with its default options on a list of groups
\* that is not empty returns a list whose elements are dicts holding the
\* merged records, a list, under 'records'.
C21_DefaultsReturnRecords ==
    (DefaultOptions /\ file_groups # <<>> /\ pc = "returned") =>
        /\ results[1] = "list"
        /\ \A k \in 1..Len(results[2]) :
               /\ results[2][k][1] = "dict"
               /\ DictGet(results[2][k][2], "records")[1] = "list"

-----------------------------------------------------------------------------
(* C22 *)

\* C22: a file of a group is opened only when the file loop has come to
\* it, and then the file before it was loaded as a list and every
\* identifier of its records has a merged record; a file after one whose
\* load failed for good, or whose merge raised, is never opened.
C22_SequentialFiles ==
    \A g \in DOMAIN task :
        \A j \in 1..Len(file_groups[g]) :
            file_groups[g][j] \in opened =>
                /\ j <= task[g].file
                /\ j > 1 =>
                       /\ Content(fs, file_groups[g][j - 1])[1] = "list"
                       /\ IdsOfFile(g, j - 1) \subseteq DictKeys(task[g].records_by_id)

\* The load of the first file failed on its last attempt, and the second
\* file, a list of records, was not opened.
C22_Witness ==
    \E g \in DOMAIN task :
        /\ task[g].exc = "RetryError"
        /\ task[g].file = 1
        /\ Len(file_groups[g]) = 2
        /\ Content(fs, file_groups[g][2])[1] = "list"
        /\ Content(fs, file_groups[g][2])[2] # <<>>
        /\ file_groups[g][2] \notin opened

-----------------------------------------------------------------------------
(* C24 *)

\* The pattern of each path of the scan, as the scan computes it.
ScanPatternOf == [p \in ScanPaths |-> BasePattern(PathName(p))]

\* The pattern a file name is to get.
CanonicalPattern(filename) ==
    LET parts == Split(filename) IN
    IF Len(parts) >= 3 /\ IsDigit(parts[1]) /\ parts[2] = Str_articles
    THEN IF IsDigit(parts[3])
         THEN parts[1] \o <<"_">> \o Str_articles \o <<"_">> \o parts[3] \o <<"_">>
         ELSE parts[1] \o <<"_">> \o Str_articles \o <<"_">>
    ELSE None

CanonicalPatternOf == [p \in ScanPaths |-> CanonicalPattern(PathName(p))]

\* The canonical patterns of which every directory of the merger has a file.
CanonicalComplete ==
    {pattern \in {CanonicalPatternOf[p] : p \in ScanPaths} \ {None} :
        \A d \in 1..Len(tagged_results_dirs) :
            \E p \in Glob(fs, tagged_results_dirs[d]) : CanonicalPatternOf[p] = pattern}

\* C24: the pattern the scan computes for a file name is its canonical
\* pattern, the same for one name in every directory; the file groups
\* found are one for each canonical pattern that has a file in every
\* directory, each made of files of that pattern.
C24_CanonicalPatternRule ==
    /\ ScanPatternOf = CanonicalPatternOf
    /\ \A p, q \in ScanPaths : PathName(p) = PathName(q) => ScanPatternOf[p] = ScanPatternOf[q]
    /\ pc = "discovered" =>
           /\ \A g \in 1..Len(file_groups) :
                  \A i \in 1..Len(file_groups[g]) :
                      /\ file_groups[g][i] # None
                      /\ CanonicalPatternOf[file_groups[g][i]] \in CanonicalComplete
                      /\ CanonicalPatternOf[file_groups[g][i]]
                             = CanonicalPatternOf[file_groups[g][1]]
           /\ Len(file_groups) = Cardinality(CanonicalComplete)

\* A scan of one directory that holds a file of a numbered pattern, a file
\* of a year pattern and a file of no pattern: two groups.
C24_Witness ==
    /\ pc = "discovered"
    /\ Len(tagged_results_dirs) = 1
    /\ Glob(fs, DirRule) = {Path(DirRule, File_1_r), Path(DirRule, File_1),
                            Path(DirRule, File_article_1)}
    /\ Len(file_groups) = 2

-----------------------------------------------------------------------------
(* C27 *)

\* The digits a string starts with.
RECURSIVE LeadingDigits(_)
LeadingDigits(s) ==
    IF s # <<>> /\ Head(s) \in Digits THEN <<Head(s)>> \o LeadingDigits(Tail(s)) ELSE <<>>

\* The year and the batch number of a name '<year>_articles_<n>...', or None.
Batch(filename) ==
    LET parts == Split(filename) IN
    IF /\ Len(parts) >= 3
       /\ IsDigit(parts[1])
       /\ parts[2] = Str_articles
       /\ LeadingDigits(parts[3]) # <<>>
    THEN <<parts[1], LeadingDigits(parts[3])>>
    ELSE None

BatchOf == [p \in ScanPaths |-> Batch(PathName(p))]

\* The files that are in a file group.
Grouped == UNION {Range(file_groups[g]) : g \in 1..Len(file_groups)}

\* C27: two files of one directory that are of different batches of one
\* year have different patterns, and where there is one directory only
\* each of them is in a file group.
C27_BatchesKeptApart ==
    pc = "discovered" =>
        \A d \in 1..Len(tagged_results_dirs) :
            \A p, q \in Glob(fs, tagged_results_dirs[d]) :
                (/\ BatchOf[p] # None
                 /\ BatchOf[q] # None
                 /\ BatchOf[p][1] = BatchOf[q][1]
                 /\ BatchOf[p][2] # BatchOf[q][2]) =>
                    /\ ScanPatternOf[p] # ScanPatternOf[q]
                    /\ Len(tagged_results_dirs) = 1 => {p, q} \subseteq Grouped

-----------------------------------------------------------------------------
(* C26 *)

\* The places of the enumeration `files` that hold a file of this pattern.
PlacesOf(files, pattern) ==
    {i \in 1..Len(files) : CanonicalPatternOf[files[i]] = pattern}

\* The greatest of a set of numbers that is not empty.
Greatest(S) == CHOOSE i \in S : \A j \in S : j <= i

\* C26: however the directories are enumerated, the slot of a directory
\* for a pattern holds the file of that pattern enumerated last in it, or
\* None when it has none; the scan raises nothing; and no file group has
\* two files of one directory, or more than one of the files of one
\* pattern a directory holds.
C26_LastEnumeratedWins ==
    /\ pc = "constructed" =>
           \A listing \in Listings(fs, tagged_results_dirs) :
               LET all_files_by_pattern == PatternMap(tagged_results_dirs, listing) IN
               \A k \in 1..Len(all_files_by_pattern) :
                   \A d \in 1..Len(tagged_results_dirs) :
                       LET places == PlacesOf(listing[d], all_files_by_pattern[k][1])
                           slot == all_files_by_pattern[k][2][d]
                       IN  IF places = {} THEN slot = None
                           ELSE slot = listing[d][Greatest(places)]
    /\ pc = "discovered" =>
           /\ exc = "none"
           /\ \A g \in 1..Len(file_groups) :
                  \A i, j \in 1..Len(file_groups[g]) :
                      /\ file_groups[g][i] # None
                      /\ PathDir(file_groups[g][i]) = tagged_results_dirs[i]
                      /\ i # j => file_groups[g][i] # file_groups[g][j]
           /\ \A d \in 1..Len(tagged_results_dirs) :
                  \A p, q \in Glob(fs, tagged_results_dirs[d]) :
                      (p # q /\ CanonicalPatternOf[p] = CanonicalPatternOf[q]) =>
                          ~({p, q} \subseteq Grouped)

\* A scan of one directory holding two files of one pattern: one group.
C26_Witness ==
    /\ pc = "discovered"
    /\ exc = "none"
    /\ Len(tagged_results_dirs) = 1
    /\ {Path(DirRule, File_1_r), Path(DirRule, File_1_t)} \subseteq Glob(fs, DirRule)
    /\ Len(file_groups) = 1

-----------------------------------------------------------------------------
(* C23 *)

\* The patterns of the files in the directories of the merger.
PatternsFound ==
    {PatternOf[p] : p \in UNION {Glob(fs, tagged_results_dirs[d]) :
                                     d \in 1..Len(tagged_results_dirs)}} \ {None}

\* The groups merge_files reports as done, and those it does not.
MergedCount == Len(results[2])
FailedCount == Cardinality({g \in DOMAIN task : task[g].ret = None})

\* C23: the scan counts every pattern found as complete or as incomplete,
\* the complete ones being the file groups it returns; and a call of
\* merge_files on groups ends with a report in which the groups merged and
\* the groups failed add up to the groups it was given.
C23_AggregateCounts ==
    /\ pc = "constructed" =>
           \A listing \in Listings(fs, tagged_results_dirs) :
               LET all_files_by_pattern == PatternMap(tagged_results_dirs, listing) IN
               /\ CompleteGroups(all_files_by_pattern) + IncompleteGroups(all_files_by_pattern)
                      = Cardinality(PatternsFound)
               /\ CompleteGroups(all_files_by_pattern) = Len(FileGroups(all_files_by_pattern))
    /\ (DOMAIN task # {} /\ pc # "merging") =>
           /\ pc = "returned"
           /\ MergedCount + FailedCount = Len(file_groups)

-----------------------------------------------------------------------------
(* C25 *)

\* The identifiers of the records src, each once, in the order in which
\* they come first.
RECURSIVE FirstSeen(_)
FirstSeen(src) ==
    IF src = <<>> THEN <<>>
    ELSE LET before == FirstSeen(SubSeq(src, 1, Len(src) - 1))
             x == RecordId(src[Len(src)], args.id_field)
         IN  IF x \in Range(before) THEN before ELSE Append(before, x)

\* C25: at every point of the merge of a group the merged records are in
\* the order in which their identifiers came first in the records passed
\* so far, files in the order of the group and records in the order of the
\* file, and the first key of each merged record is the identifier field.
C25_FirstEncounterOrder ==
    \A g \in DOMAIN task :
        LET records_by_id == task[g].records_by_id IN
        /\ [k \in 1..Len(records_by_id) |-> records_by_id[k][1]] = FirstSeen(FoldedSoFar(g))
        /\ \A k \in 1..Len(records_by_id) :
               /\ records_by_id[k][2][1][1] = args.id_field
               /\ records_by_id[k][2][1][2] = records_by_id[k][1]
        /\ (Merged(g) /\ MergedOf(g) # None) =>
               [k \in 1..Len(RecordsOf(MergedOf(g))) |->
                    DictGet(RecordsOf(MergedOf(g))[k], args.id_field)]
                   = FirstSeen(AllRecords(g))

\* A merged group of a1 then a2 whose second file gave a1 a new value of x
\* after a2 was seen.
C25_Witness ==
    \E g \in DOMAIN task :
        /\ Merged(g)
        /\ args.id_field = "id"
        /\ FileRecords(file_groups[g][1]) = <<Rec_a1_x1, Rec_a2_x1>>
        /\ FileRecords(file_groups[g][2]) = <<Rec_a1_x2>>
        /\ Len(task[g].records_by_id) = 2
        /\ task[g].records_by_id[1][1] = JStr(Str_a1)
        /\ DictGet(task[g].records_by_id[1][2], "x") = JNum(2)

-----------------------------------------------------------------------------
(* C28 *)

\* What the workers of the groups from `g` on returned, None left out, in
\* the order of the groups.
RECURSIVE ReturnedInOrder(_)
ReturnedInOrder(g) ==
    IF g > Len(task) THEN <<>>
    ELSE (IF task[g].ret # None THEN <<task[g].ret>> ELSE <<>>) \o ReturnedInOrder(g + 1)

\* C28: the list merge_files returns holds what the workers returned in
\* the order of the groups, the groups that gave None left out, in whatever
\* order the workers ended; with save_disaggregrated_files false the
\* group_index of its entries is strictly increasing.
C28_OrderPreserved ==
    pc = "returned" =>
        /\ results = PyList(ReturnedInOrder(1))
        /\ ~args.save_disaggregrated_files =>
               \A k, l \in 1..Len(results[2]) :
                   k < l => DictGet(results[2][k][2], "group_index")[2]
                                < DictGet(results[2][l][2], "group_index")[2]

\* A run without saving over two groups that has returned two entries.
C28_Witness ==
    /\ pc = "returned"
    /\ ~args.save_disaggregrated_files
    /\ Len(file_groups) = 2
    /\ Len(results[2]) = 2
    /\ DictGet(results[2][2][2], "group_index") = JNum(1)

-----------------------------------------------------------------------------
(* C29 *)

-----------------------------------------------------------------------------
(* C30 *)

\* C30: whatever the two mode flags are, when every worker of a call of
\* merge_files has returned without an exception the call does not raise:
\* it is about to return or has returned, and with both flags true and a
\* group written what it returns are the paths written.
C30_AllModesReturn ==
    (/\ DOMAIN task # {}
     /\ \A g \in DOMAIN task : task[g].pc = "returned" /\ task[g].exc = "none") =>
        /\ pc \in {"merging", "returned"}
        /\ exc = "none"
        /\ (/\ pc = "returned"
            /\ args.save_disaggregrated_files
            /\ args.append_merge_results) =>
               \A k \in 1..Len(results[2]) : results[2][k][1] = "str"

=============================================================================
